---- MODULE Spec2Model ----
(***************************************************************************)
(* State-machine model of the dinput8 proxy DLL (dllmain.cpp).             *)
(*                                                                         *)
(* The heap holds the COM objects of the genuine library (reference        *)
(* counted) and the wrapper objects of the DLL (one field: the wrapped     *)
(* pointer).  The application is the environment: it calls the export and  *)
(* the methods of the handles it holds references to.  Every handler is    *)
(* one action; `last` records the observable outcome of the latest call.   *)
(*                                                                         *)
(* dllmain.cpp carries two definitions of the export DirectInput8Create    *)
(* (lines 327-357 and 810-846); exportDef is the one the DLL exports.      *)
(*                                                                         *)
(* Spec runs the handlers one call at a time.  SpecRelease and             *)
(* SpecLazyInit run Release and the head of the export statement by        *)
(* statement on several threads.                                           *)
(***************************************************************************)
EXTENDS Integers, Sequences, FiniteSets, TLC

VARIABLES
    exportDef,                 \* which definition of the export is linked
    g_pfnDirectInput8Create,   \* cached pointer to the genuine creation function
    heap,                      \* object id -> object
    held,                      \* object id -> references the application holds through it
    last,                      \* outcome of the latest call
    realBuf,                   \* latest GetDeviceState: the buffer as the real device left it
    lpvData,                   \* latest GetDeviceState: the buffer as the caller gets it back
    thread                     \* thread -> the call it is in the middle of

vars == <<exportDef, g_pfnDirectInput8Create, heap, held, last, realBuf, lpvData, thread>>

----------------------------------------------------------------------------
(* Bounds *)

MaxObjects == 4
MaxRefs == 2
NumThreads == 2

----------------------------------------------------------------------------
(* Platform constants used by the source *)

NULL == 0
UNWRITTEN == -1               \* caller's output location not stored to
REAL_PFN == 1                 \* address of the genuine DirectInput8Create

S_OK == 0
E_FAIL == -2147467259         \* 0x80004005

SizeofDIJOYSTATE == 80        \* sizeof(DIJOYSTATE)
OffsetRx == 12                \* offsetof(DIJOYSTATE, lRx)
OffsetRy == 16                \* offsetof(DIJOYSTATE, lRy)

DI8DEVTYPE_1STPERSON == 24            \* 0x18
DI8DEVTYPE1STPERSON_SIXDOF == 3

SUCCEEDED(hr) == hr >= 0

GET_DIDEVICE_TYPE(dwDevType) == dwDevType % 256

GET_DIDEVICE_SUBTYPE(dwDevType) == (dwDevType \div 256) % 256

----------------------------------------------------------------------------
(* Input samples *)

\* results of a real QueryInterface: S_OK, E_NOINTERFACE
QueryResults == {0, -2147467262}

\* declared buffer sizes: a mouse state, 48, DIJOYSTATE and one byte more
CbDataValues == {16, 48, 80, 81}

\* <<lRx, lRy>> as the real device reports them
AxisPairs == {<<150, -200>>, <<-2147483647 - 1, 2147483647>>}

\* what the real GetDeviceState does: <<hr, wrote, <<lRx, lRy>>, filler byte>>.
\* It succeeds (S_OK, or S_FALSE with an all-zero filler) and fills the buffer,
\* or fails with DIERR_INPUTLOST having written the buffer or not
StateOutcomes ==
    {<<0, TRUE, a, 165>> : a \in AxisPairs}
    \cup {<<1, TRUE, <<150, -200>>, 0>>}
    \cup {<<-2147024866, w, <<150, -200>>, 165>> : w \in BOOLEAN}

\* dwDevType values: 1st-person/6DOF (0x318, and 0x10318 with the HID flag),
\* 1st-person shooter (0x418), gamepad with sub-type 3 (0x315)
DevTypes == {792, 66328, 1048, 789}

Riids == {"IID_IUnknown", "IID_IDirectInput8A", "IID_IDirectInput8W",
          "IID_IDirectInputDevice8A", "IID_IDirectInputDevice8W"}

\* interface identifiers passed to the export
ExportRiids == {"IID_IDirectInput8A", "IID_IDirectInput8W", "IID_IUnknown"}

\* <<hMod, pfn>>: LoadLibraryA fails; GetProcAddress fails; both succeed
LoadOutcomes == {<<0, 0>>, <<1, 0>>, <<1, 1>>}

\* what the genuine DirectInput8Create does: <<hr, value left in its output
\* argument when it fails>>
GenuineOutcomes == {<<0, 0>>, <<-2147024866, 0>>, <<-2147024866, -1>>}

\* what the real factory and the new device do in CreateDevice:
\* <<hr of CreateDevice, hr of GetDeviceInfo, didi.dwDevType>>; when
\* GetDeviceInfo fails didi is left as it was on the stack (here: the bits of a
\* 1st-person/6DOF type)
DeviceOutcomes ==
    {<<-2147024866, 0, 0>>, <<0, -2147024866, 792>>}
    \cup {<<0, 0, t>> : t \in DevTypes}

\* reads the application makes on a real device itself: <<cbData, outcome>>,
\* a joystick state read that succeeds or fails and a 48-byte read
DirectReads ==
    {<<SizeofDIJOYSTATE, <<0, TRUE, <<150, -200>>, 165>>>>,
     <<SizeofDIJOYSTATE, <<-2147024866, FALSE, <<150, -200>>, 165>>>>,
     <<48, <<0, TRUE, <<150, -200>>, 165>>>>}

\* data formats passed to SetDataFormat
DataFormats == {"c_dfDIJoystick"}

\* results of a forwarded device method: DI_OK, DIERR_INPUTLOST
ForwardResults == {0, -2147024866}

Ids == 1..MaxObjects

Threads == 1..NumThreads

\* a handle of the genuine library that is handed to the application unwrapped:
\* the DLL keeps no pointer to it and never sees it again
GenuineHandle == MaxObjects + 1

\* fields of an object: cls, enc: its class; ref: the count a real object keeps;
\* format: the data format a real device was given last; real: the m_pReal...
\* pointer of a wrapper; m_pDataFormat: the second field of the device wrapper
\* as first defined (line 71); live, deletes: whether and how often it was freed
NoObject == [cls |-> "free", enc |-> "-", ref |-> 0, format |-> "-", real |-> NULL,
             m_pDataFormat |-> "nullptr", live |-> FALSE, deletes |-> 0]

NoCall == [op |-> "none", self |-> NULL, riid |-> "-", hr |-> S_OK,
           out |-> UNWRITTEN, newProxy |-> NULL, loadCalls |-> 0, procCalls |-> 0,
           hMod |-> NULL, pfn |-> NULL,
           genuineCalls |-> 0, genuineRiid |-> "-", genuineOut |-> UNWRITTEN,
           realHr |-> S_OK, realOut |-> NULL, infoCalls |-> 0, infoHr |-> S_OK,
           devType |-> 0, uRet |-> 0, cbData |-> 0, addRefCalls |-> 0,
           calls |-> <<>>, infoOn |-> NULL]

\* a thread that is in no call. pc: the statement it is at; this: the wrapper
\* it called Release on; refs: the references it still owns; uRet, hMod: the
\* locals of Release and of the export; seen: the value of
\* g_pfnDirectInput8Create it read or stored last; called: the address it
\* called through; loads, resolves: its LoadLibraryA and GetProcAddress calls
\* that succeeded; useAfterFree: it read a field of a deleted wrapper
NoThread == [pc |-> "idle", this |-> NULL, refs |-> 0, uRet |-> 0, hMod |-> NULL,
             seen |-> NULL, called |-> NULL, hr |-> S_OK, loads |-> 0,
             resolves |-> 0, useAfterFree |-> FALSE]

----------------------------------------------------------------------------
(* The caller's buffer: a sequence of bytes, offset o at index o + 1 *)

\* little-endian bytes of a 32-bit LONG (two's complement)
LongBytes(v) ==
    [j \in 1..4 |->
        IF v >= 0 THEN (v \div (256 ^ (j - 1))) % 256
        ELSE 255 - (((-1 - v) \div (256 ^ (j - 1))) % 256)]

\* *(LONG* )(buf + off) = v, for the bytes that lie inside the buffer
StoreLong(buf, off, v) ==
    [i \in 1..Len(buf) |->
        IF (i - 1 >= off) /\ (i - 1 <= off + 3) THEN LongBytes(v)[i - off] ELSE buf[i]]

\* the LONG read back from buf + off
LoadLong(buf, off) ==
    IF buf[off + 4] < 128
    THEN buf[off + 1] + 256 * buf[off + 2] + 65536 * buf[off + 3]
         + 16777216 * buf[off + 4]
    ELSE -1 - ((255 - buf[off + 1]) + 256 * (255 - buf[off + 2])
               + 65536 * (255 - buf[off + 3]) + 16777216 * (255 - buf[off + 4]))

\* the buffer as the application passes it in
CallerBuffer(cbData) == [i \in 1..cbData |-> 204]

\* the buffer as the real device fills it: lRx, lRy at their offsets, `fill`
\* in every other byte
RealFill(cbData, axes, fill) ==
    [i \in 1..cbData |->
        IF (i - 1 >= OffsetRx) /\ (i - 1 <= OffsetRx + 3) THEN LongBytes(axes[1])[i - OffsetRx]
        ELSE IF (i - 1 >= OffsetRy) /\ (i - 1 <= OffsetRy + 3) THEN LongBytes(axes[2])[i - OffsetRy]
        ELSE fill]

\* no GetDeviceState buffer is in play after any other call
NoBuffer == realBuf' = <<>> /\ lpvData' = <<>>

\* variant: takes a 48-byte buffer for the joystick state
DeviceA_GetDeviceState_FortyEight(cbData, hr, filled) ==
    IF SUCCEEDED(hr) /\ cbData = 48
    THEN StoreLong(StoreLong(filled, OffsetRx, 0), OffsetRy, 0)
    ELSE filled

\* variant: clears lRz where lRy is meant
DeviceA_GetDeviceState_WrongField(cbData, hr, filled) ==
    IF SUCCEEDED(hr) /\ cbData = SizeofDIJOYSTATE
    THEN StoreLong(StoreLong(filled, OffsetRx, 0), 20, 0)
    ELSE filled

\* variant: clears the fields whatever the real call returned
DeviceA_GetDeviceState_NoResultTest(cbData, hr, filled) ==
    IF cbData = SizeofDIJOYSTATE
    THEN StoreLong(StoreLong(filled, OffsetRx, 0), OffsetRy, 0)
    ELSE filled

\* WrapperIDirectInputDevice8A::GetDeviceState after the real call returned hr
\* and left `filled` in lpvData: the value of lpvData at return
DeviceA_GetDeviceState(cbData, hr, filled) ==
    IF SUCCEEDED(hr) /\ cbData = SizeofDIJOYSTATE
    THEN StoreLong(StoreLong(filled, OffsetRx, 0), OffsetRy, 0)
    ELSE filled

\* variant: accepts every buffer at least as large as DIJOYSTATE
DeviceW_GetDeviceState_AtLeast(cbData, hr, filled) ==
    IF SUCCEEDED(hr) /\ cbData >= SizeofDIJOYSTATE
    THEN StoreLong(StoreLong(filled, OffsetRx, 0), OffsetRy, 0)
    ELSE filled

\* WrapperIDirectInputDevice8W::GetDeviceState, likewise
DeviceW_GetDeviceState(cbData, hr, filled) ==
    IF SUCCEEDED(hr) /\ cbData = SizeofDIJOYSTATE
    THEN StoreLong(StoreLong(filled, OffsetRx, 0), OffsetRy, 0)
    ELSE filled

----------------------------------------------------------------------------
(* Heap helpers *)

FreeIds == {i \in Ids : heap[i].cls = "free"}

MinOf(S) == CHOOSE i \in S : \A j \in S : i <= j

IsWrapper(i) == heap[i].cls \in {"WrapperIDirectInput8", "WrapperIDirectInputDevice8"}

IsReal(i) == heap[i].cls \in {"IDirectInput8", "IDirectInputDevice8"}

\* an object of the genuine library, fresh from its creation call (count 1)
RealObject(cls, enc) ==
    [cls |-> cls, enc |-> enc, ref |-> 1, format |-> "-", real |-> NULL,
     m_pDataFormat |-> "nullptr", live |-> TRUE, deletes |-> 0]

\* new WrapperIDirectInput8A/W(pReal), new WrapperIDirectInputDevice8A/W(pReal)
NewWrapper(cls, enc, pReal) ==
    [cls |-> cls, enc |-> enc, ref |-> 0, format |-> "-", real |-> pReal,
     m_pDataFormat |-> "nullptr", live |-> TRUE, deletes |-> 0]

\* the riid the wrapper class answers itself for, besides IID_IUnknown
OwnIid(cls, enc) ==
    IF cls = "WrapperIDirectInput8"
    THEN (IF enc = "A" THEN "IID_IDirectInput8A" ELSE "IID_IDirectInput8W")
    ELSE (IF enc = "A" THEN "IID_IDirectInputDevice8A" ELSE "IID_IDirectInputDevice8W")

----------------------------------------------------------------------------
(* Initial state: DLL loaded, nothing created, cache empty *)

Init ==
    /\ exportDef \in {1, 2}
    /\ g_pfnDirectInput8Create = NULL
    /\ heap = [i \in Ids |-> NoObject]
    /\ held = [i \in Ids |-> 0]
    /\ last = NoCall
    /\ realBuf = <<>>
    /\ lpvData = <<>>
    /\ thread = [t \in Threads |-> NoThread]

----------------------------------------------------------------------------
(* The exported DirectInput8Create *)

\* variant: takes every identifier other than the Unicode one for the ANSI one
Dispatch_WrapsUnknown(riid) ==
    IF riid = "IID_IDirectInput8W" THEN "wrapW" ELSE "wrapA"

\* the branch the second (later) definition of the export takes for riid
Dispatch(riid) ==
    IF riid = "IID_IDirectInput8A" THEN "wrapA"
    ELSE IF riid = "IID_IDirectInput8W" THEN "wrapW"
    ELSE "forward"

\* the branch the first definition of the export takes for riid
DispatchFirst(riid) ==
    IF riid # "IID_IDirectInput8A" THEN "forward" ELSE "wrapA"

\* variant: caches the module handle when the export could not be resolved
LoadedPfn_CachesModule(hMod, pfn) ==
    IF g_pfnDirectInput8Create # NULL THEN g_pfnDirectInput8Create
    ELSE IF hMod = NULL THEN g_pfnDirectInput8Create
    ELSE IF pfn = NULL THEN hMod
    ELSE pfn

\* the lazy load at the head of the export: what it leaves in the cache
LoadedPfn(hMod, pfn) ==
    IF g_pfnDirectInput8Create # NULL THEN g_pfnDirectInput8Create
    ELSE IF hMod = NULL THEN g_pfnDirectInput8Create
    ELSE pfn

\* variant: the result of GetProcAddress is not tested
LoadFails_NoExportTest(hMod, pfn) ==
    /\ g_pfnDirectInput8Create = NULL
    /\ hMod = NULL

\* the lazy load returns E_FAIL before anything else is done
LoadFails(hMod, pfn) ==
    /\ g_pfnDirectInput8Create = NULL
    /\ (hMod = NULL \/ pfn = NULL)

\* body of the export shared by both definitions; `branch` is the branch taken.
\* hMod, pfn: results of LoadLibraryA and GetProcAddress; realHr: result of the
\* genuine function; failOut: what the genuine function leaves in its output
\* argument when it fails
ExportBody(branch, riid, hMod, pfn, realHr, failOut) ==
    LET loading == g_pfnDirectInput8Create = NULL
        r == MinOf(FreeIds)
        w == MinOf(FreeIds \ {r})
        enc == IF branch = "wrapA" THEN "A" ELSE "W"
        base == [NoCall EXCEPT !.op = "DirectInput8Create", !.riid = riid,
                    !.loadCalls = IF loading THEN 1 ELSE 0,
                    !.procCalls = IF loading /\ hMod # NULL THEN 1 ELSE 0,
                    !.hMod = IF loading THEN hMod ELSE NULL,
                    !.pfn = IF loading THEN pfn ELSE NULL]
    IN
    /\ g_pfnDirectInput8Create' = LoadedPfn(hMod, pfn)
    /\ IF LoadFails(hMod, pfn)
       THEN /\ last' = [base EXCEPT !.hr = E_FAIL]
            /\ UNCHANGED <<heap, held>>
       ELSE IF ~SUCCEEDED(realHr)
       THEN /\ last' = [base EXCEPT !.hr = realHr, !.realHr = realHr,
                           !.genuineCalls = 1,
                           !.genuineRiid = IF branch = "wrapA" THEN "IID_IDirectInput8A"
                                           ELSE IF branch = "wrapW" THEN "IID_IDirectInput8W"
                                           ELSE riid,
                           !.genuineOut = IF branch = "forward" THEN failOut ELSE NULL,
                           !.out = IF branch = "forward" THEN failOut ELSE UNWRITTEN]
            /\ UNCHANGED <<heap, held>>
       ELSE IF branch = "forward"
       THEN /\ last' = [base EXCEPT !.hr = realHr, !.realHr = realHr,
                           !.genuineCalls = 1, !.genuineRiid = riid,
                           !.genuineOut = GenuineHandle, !.out = GenuineHandle]
            /\ UNCHANGED <<heap, held>>
       ELSE /\ Cardinality(FreeIds) >= 2
            /\ heap' = [heap EXCEPT ![r] = RealObject("IDirectInput8", enc),
                                    ![w] = NewWrapper("WrapperIDirectInput8", enc, r)]
            /\ held' = [held EXCEPT ![w] = 1]
            /\ last' = [base EXCEPT !.hr = realHr, !.realHr = realHr,
                           !.genuineCalls = 1,
                           !.genuineRiid = IF branch = "wrapA" THEN "IID_IDirectInput8A"
                                           ELSE "IID_IDirectInput8W",
                           !.genuineOut = r, !.out = w, !.newProxy = w]
    /\ UNCHANGED <<thread, exportDef>>
    /\ NoBuffer

\* the export as defined last in the file
DirectInput8Create ==
    /\ exportDef = 2
    /\ \E riid \in ExportRiids,
          ld \in (IF g_pfnDirectInput8Create = NULL THEN LoadOutcomes ELSE {<<1, 1>>}),
          g \in GenuineOutcomes :
          ExportBody(Dispatch(riid), riid, ld[1], ld[2], g[1], g[2])

\* the export as defined first in the file
DirectInput8CreateFirst ==
    /\ exportDef = 1
    /\ \E riid \in ExportRiids,
          ld \in (IF g_pfnDirectInput8Create = NULL THEN LoadOutcomes ELSE {<<1, 1>>}),
          g \in GenuineOutcomes :
          ExportBody(DispatchFirst(riid), riid, ld[1], ld[2], g[1], g[2])

----------------------------------------------------------------------------
(* IUnknown methods of the four wrapper classes *)

\* variant: IID_IUnknown is not answered by the wrapper
QueryReturnsSelf_OwnIidOnly(cls, enc, riid) ==
    riid = OwnIid(cls, enc)

\* QueryInterface answers with the wrapper itself
QueryReturnsSelf(cls, enc, riid) ==
    riid = "IID_IUnknown" \/ riid = OwnIid(cls, enc)

\* variant: deletes the wrapper while one reference is still out
ReleaseDeletes_AtOne(uRet) == uRet <= 1

\* Release: the test that guards `delete this`
ReleaseDeletes(uRet) == uRet = 0

\* the wrapper p after Release saw m_pReal->Release() return uRet
AfterRelease(obj, uRet) ==
    IF ReleaseDeletes(uRet)
    THEN [obj EXCEPT !.live = FALSE, !.deletes = @ + 1]
    ELSE obj

\* the real object after its own AddRef / Release moved its count to n
Counted(obj, n) == [obj EXCEPT !.ref = n, !.live = (n > 0)]

QueryInterface ==
    \E p \in Ids, riid \in Riids, realHr \in QueryResults :
        /\ IsWrapper(p) /\ held[p] > 0
        /\ LET r == heap[p].real IN
           IF QueryReturnsSelf(heap[p].cls, heap[p].enc, riid)
           THEN /\ heap[r].ref < MaxRefs
                /\ heap' = [heap EXCEPT ![r] = Counted(@, @.ref + 1)]
                /\ held' = [held EXCEPT ![p] = @ + 1]
                /\ last' = [NoCall EXCEPT !.op = "QueryInterface", !.self = p,
                               !.riid = riid, !.hr = S_OK, !.out = p,
                               !.uRet = heap[r].ref + 1, !.addRefCalls = 1]
           ELSE IF SUCCEEDED(realHr)
           THEN /\ heap[r].ref < MaxRefs
                /\ heap' = [heap EXCEPT ![r] = Counted(@, @.ref + 1)]
                /\ held' = [held EXCEPT ![r] = @ + 1]
                /\ last' = [NoCall EXCEPT !.op = "QueryInterface", !.self = p,
                               !.riid = riid, !.hr = realHr, !.realHr = realHr,
                               !.realOut = r, !.out = r]
           ELSE /\ UNCHANGED <<heap, held>>
                /\ last' = [NoCall EXCEPT !.op = "QueryInterface", !.self = p,
                               !.riid = riid, !.hr = realHr, !.realHr = realHr,
                               !.realOut = NULL, !.out = NULL]
        /\ UNCHANGED <<thread, exportDef, g_pfnDirectInput8Create>>
        /\ NoBuffer

AddRef ==
    \E p \in Ids :
        /\ IsWrapper(p) /\ held[p] > 0
        /\ LET r == heap[p].real IN
           /\ heap[r].ref < MaxRefs
           /\ heap' = [heap EXCEPT ![r] = Counted(@, @.ref + 1)]
           /\ held' = [held EXCEPT ![p] = @ + 1]
           /\ last' = [NoCall EXCEPT !.op = "AddRef", !.self = p,
                          !.uRet = heap[r].ref + 1, !.addRefCalls = 1]
        /\ UNCHANGED <<thread, exportDef, g_pfnDirectInput8Create>>
        /\ NoBuffer

Release ==
    \E p \in Ids :
        /\ IsWrapper(p) /\ held[p] > 0
        /\ LET r == heap[p].real
               uRet == heap[r].ref - 1
           IN
           /\ heap' = [heap EXCEPT ![r] = Counted(@, uRet), ![p] = AfterRelease(@, uRet)]
           /\ held' = [held EXCEPT ![p] = @ - 1]
           /\ last' = [NoCall EXCEPT !.op = "Release", !.self = p, !.uRet = uRet]
        /\ UNCHANGED <<thread, exportDef, g_pfnDirectInput8Create>>
        /\ NoBuffer

\* the application releases a reference to a wrapped object that a forwarded
\* QueryInterface handed to it: the real object's own Release
RealRelease ==
    \E r \in Ids :
        /\ IsReal(r) /\ held[r] > 0
        /\ heap' = [heap EXCEPT ![r] = Counted(@, @.ref - 1)]
        /\ held' = [held EXCEPT ![r] = @ - 1]
        /\ last' = [NoCall EXCEPT !.op = "RealRelease", !.self = r,
                       !.uRet = heap[r].ref - 1]
        /\ UNCHANGED <<thread, exportDef, g_pfnDirectInput8Create>>
        /\ NoBuffer

----------------------------------------------------------------------------
(* CreateDevice of the factory wrappers *)

\* variant: wraps whatever didi holds, also when GetDeviceInfo failed
FactoryA_Wraps_IgnoresInfoResult(infoHr, dwDevType) ==
    /\ GET_DIDEVICE_TYPE(dwDevType) = DI8DEVTYPE_1STPERSON
    /\ GET_DIDEVICE_SUBTYPE(dwDevType) = DI8DEVTYPE1STPERSON_SIXDOF

\* WrapperIDirectInput8A::CreateDevice hands out a new device wrapper
FactoryA_Wraps(infoHr, dwDevType) ==
    /\ SUCCEEDED(infoHr)
    /\ GET_DIDEVICE_TYPE(dwDevType) = DI8DEVTYPE_1STPERSON
    /\ GET_DIDEVICE_SUBTYPE(dwDevType) = DI8DEVTYPE1STPERSON_SIXDOF

\* variant: wraps every 1st-person device, whatever its sub-type
FactoryW_Wraps_AnyFirstPerson(infoHr, dwDevType) ==
    /\ SUCCEEDED(infoHr)
    /\ GET_DIDEVICE_TYPE(dwDevType) = DI8DEVTYPE_1STPERSON

\* WrapperIDirectInput8W::CreateDevice hands out a new device wrapper
FactoryW_Wraps(infoHr, dwDevType) ==
    /\ SUCCEEDED(infoHr)
    /\ GET_DIDEVICE_TYPE(dwDevType) = DI8DEVTYPE_1STPERSON
    /\ GET_DIDEVICE_SUBTYPE(dwDevType) = DI8DEVTYPE1STPERSON_SIXDOF

\* how often x occurs in seq
Occurrences(seq, x) == Cardinality({i \in DOMAIN seq : seq[i] = x})

\* variant: hands the device to the caller before asking what it is
CreateDevice_Calls_StoreFirst(realHr) ==
    IF SUCCEEDED(realHr) THEN <<"CreateDevice", "store", "GetDeviceInfo">>
    ELSE <<"CreateDevice">>

\* CreateDevice of a factory wrapper, in the order of its statements: the calls
\* it makes on real objects and its store to *lplpDirectInputDevice (every
\* branch under SUCCEEDED(hr) asks GetDeviceInfo and then stores once)
CreateDevice_Calls(realHr) ==
    IF SUCCEEDED(realHr) THEN <<"CreateDevice", "GetDeviceInfo", "store">>
    ELSE <<"CreateDevice">>

CreateDevice ==
    \E f \in Ids, o \in DeviceOutcomes :
        /\ heap[f].cls = "WrapperIDirectInput8" /\ held[f] > 0
        /\ LET realHr == o[1]
               infoHr == o[2]
               dwDevType == o[3]
               enc == heap[f].enc
               r == MinOf(FreeIds)
               w == MinOf(FreeIds \ {r})
               wraps == IF enc = "A" THEN FactoryA_Wraps(infoHr, dwDevType)
                        ELSE FactoryW_Wraps(infoHr, dwDevType)
               base == [NoCall EXCEPT !.op = "CreateDevice", !.self = f,
                           !.hr = realHr, !.realHr = realHr,
                           !.calls = CreateDevice_Calls(realHr),
                           !.infoCalls = Occurrences(CreateDevice_Calls(realHr),
                                                     "GetDeviceInfo")]
           IN
           IF ~SUCCEEDED(realHr)
           THEN /\ last' = base
                /\ UNCHANGED <<heap, held>>
           ELSE IF wraps
           THEN /\ Cardinality(FreeIds) >= 2
                /\ heap' = [heap EXCEPT ![r] = RealObject("IDirectInputDevice8", enc),
                              ![w] = NewWrapper("WrapperIDirectInputDevice8", enc, r)]
                /\ held' = [held EXCEPT ![w] = 1]
                /\ last' = [base EXCEPT !.realOut = r, !.infoOn = r,
                               !.infoHr = infoHr, !.devType = dwDevType,
                               !.out = w, !.newProxy = w]
           ELSE /\ last' = [base EXCEPT !.realOut = GenuineHandle,
                               !.infoOn = GenuineHandle,
                               !.infoHr = infoHr, !.devType = dwDevType,
                               !.out = GenuineHandle]
                /\ UNCHANGED <<heap, held>>
        /\ UNCHANGED <<thread, exportDef, g_pfnDirectInput8Create>>
        /\ NoBuffer

----------------------------------------------------------------------------
(* GetDeviceState of the device wrappers *)

GetDeviceState ==
    \E p \in Ids, cbData \in CbDataValues, o \in StateOutcomes :
        /\ heap[p].cls = "WrapperIDirectInputDevice8" /\ held[p] > 0
        /\ realBuf' = IF o[2] THEN RealFill(cbData, o[3], o[4]) ELSE CallerBuffer(cbData)
        /\ lpvData' = IF heap[p].enc = "A"
                      THEN DeviceA_GetDeviceState(cbData, o[1], realBuf')
                      ELSE DeviceW_GetDeviceState(cbData, o[1], realBuf')
        /\ last' = [NoCall EXCEPT !.op = "GetDeviceState", !.self = p,
                       !.hr = o[1], !.realHr = o[1], !.cbData = cbData]
        /\ UNCHANGED <<thread, exportDef, g_pfnDirectInput8Create, heap, held>>

\* GetDeviceState called on the real device itself, through a handle that a
\* forwarded QueryInterface gave to the application: no wrapper code runs
RealGetDeviceState ==
    \E r \in Ids, rd \in DirectReads :
        /\ heap[r].cls = "IDirectInputDevice8" /\ held[r] > 0
        /\ LET cbData == rd[1]
               o == rd[2]
           IN
           /\ realBuf' = IF o[2] THEN RealFill(cbData, o[3], o[4])
                          ELSE CallerBuffer(cbData)
           /\ lpvData' = realBuf'
           /\ last' = [NoCall EXCEPT !.op = "RealGetDeviceState", !.self = r,
                          !.hr = o[1], !.realHr = o[1], !.cbData = cbData]
        /\ UNCHANGED <<thread, exportDef, g_pfnDirectInput8Create, heap, held>>

----------------------------------------------------------------------------
(* Forwarding methods of the device wrappers *)

\* variant: the wrapper keeps the format it was given
AfterSetDataFormat_KeepsFormat(obj, lpdf) == [obj EXCEPT !.m_pDataFormat = lpdf]

\* the device wrapper after SetDataFormat(lpdf) ran on it
AfterSetDataFormat(obj, lpdf) == obj

SetDataFormat ==
    \E p \in Ids, lpdf \in DataFormats, hr \in ForwardResults :
        /\ heap[p].cls = "WrapperIDirectInputDevice8" /\ held[p] > 0
        /\ heap' = [heap EXCEPT
                       ![heap[p].real].format = IF SUCCEEDED(hr) THEN lpdf ELSE @,
                       ![p] = AfterSetDataFormat(@, lpdf)]
        /\ last' = [NoCall EXCEPT !.op = "SetDataFormat", !.self = p,
                       !.hr = hr, !.realHr = hr]
        /\ UNCHANGED <<thread, exportDef, g_pfnDirectInput8Create, held>>
        /\ NoBuffer

\* a method that returns what the same method of the real device returns
Forwarded(op) ==
    \E p \in Ids, hr \in ForwardResults :
        /\ heap[p].cls = "WrapperIDirectInputDevice8" /\ held[p] > 0
        /\ last' = [NoCall EXCEPT !.op = op, !.self = p, !.hr = hr, !.realHr = hr]
        /\ UNCHANGED <<thread, exportDef, g_pfnDirectInput8Create, heap, held>>
        /\ NoBuffer

Acquire == Forwarded("Acquire")

Poll == Forwarded("Poll")

SetProperty == Forwarded("SetProperty")

----------------------------------------------------------------------------

Next ==
    \/ DirectInput8Create
    \/ DirectInput8CreateFirst
    \/ CreateDevice
    \/ QueryInterface
    \/ AddRef
    \/ Release
    \/ RealRelease
    \/ GetDeviceState
    \/ RealGetDeviceState
    \/ SetDataFormat
    \/ Acquire
    \/ Poll
    \/ SetProperty

Spec == Init /\ [][Next]_vars

----------------------------------------------------------------------------
(* Release called on one wrapper from several threads.  Each thread owns     *)
(* references to the wrapper and releases them one call at a time; a call is *)
(* two steps, the delegated decrement (atomic in the real object) and the    *)
(* test of its result.                                                       *)

WrapperClasses ==
    {<<"WrapperIDirectInput8", "IDirectInput8">>,
     <<"WrapperIDirectInputDevice8", "IDirectInputDevice8">>}

\* the sum of the references the threads own
RECURSIVE SumRefs(_, _)
SumRefs(refs, n) == IF n = 0 THEN 0 ELSE refs[n] + SumRefs(refs, n - 1)

\* a wrapper (object 2) around a real object (object 1) whose count is the
\* number of references the threads own
InitRelease ==
    /\ exportDef \in {1, 2}
    /\ g_pfnDirectInput8Create = REAL_PFN
    /\ \E c \in WrapperClasses, enc \in {"A", "W"}, refs \in [Threads -> 1..MaxRefs] :
          /\ heap = [i \in Ids |->
                       IF i = 1
                       THEN [RealObject(c[2], enc) EXCEPT !.ref = SumRefs(refs, NumThreads)]
                       ELSE IF i = 2 THEN NewWrapper(c[1], enc, 1)
                       ELSE NoObject]
          /\ held = [i \in Ids |-> IF i = 2 THEN SumRefs(refs, NumThreads) ELSE 0]
          /\ thread = [t \in Threads |->
                         [NoThread EXCEPT !.pc = "Release", !.this = 2, !.refs = refs[t]]]
    /\ last = NoCall
    /\ realBuf = <<>>
    /\ lpvData = <<>>

\* ULONG uRet = m_pReal...->Release();
Release_Decrement(t) ==
    /\ thread[t].pc = "Release"
    /\ LET p == thread[t].this
           r == heap[p].real
           uRet == heap[r].ref - 1
       IN
       /\ heap' = [heap EXCEPT ![r] = Counted(@, uRet)]
       /\ held' = [held EXCEPT ![p] = @ - 1]
       /\ thread' = [thread EXCEPT ![t].pc = "test", ![t].uRet = uRet,
                                   ![t].refs = @ - 1,
                                   ![t].useAfterFree = @ \/ ~heap[p].live]
    /\ UNCHANGED <<exportDef, g_pfnDirectInput8Create, last, realBuf, lpvData>>

\* variant: the count is read again from the real object for the test
TestedCount_ReadAgain(t) == heap[heap[thread[t].this].real].ref

\* the value that `if (uRet == 0)` tests: the local that holds the result of
\* the thread's own decrement
TestedCount(t) == thread[t].uRet

\* if (uRet == 0) delete this; return uRet;
Release_Test(t) ==
    /\ thread[t].pc = "test"
    /\ heap' = [heap EXCEPT ![thread[t].this] = AfterRelease(@, TestedCount(t))]
    /\ thread' = [thread EXCEPT
                     ![t].pc = IF thread[t].refs > 0 THEN "Release" ELSE "returned"]
    /\ UNCHANGED <<exportDef, g_pfnDirectInput8Create, held, last, realBuf, lpvData>>

NextRelease ==
    \E t \in Threads :
        \/ Release_Decrement(t)
        \/ Release_Test(t)

SpecRelease == InitRelease /\ [][NextRelease]_vars

----------------------------------------------------------------------------
(* The head of the export entered by several threads.  The code takes no     *)
(* lock and g_pfnDirectInput8Create is a plain pointer: a step is one read   *)
(* or write of it, or one call of the loader.  A read that races with a      *)
(* write returns the old or the new pointer; the call may use the pointer    *)
(* the thread read or stored before, or read it again.                       *)

InitLazyInit ==
    /\ exportDef \in {1, 2}
    /\ g_pfnDirectInput8Create = NULL
    /\ heap = [i \in Ids |-> NoObject]
    /\ held = [i \in Ids |-> 0]
    /\ last = NoCall
    /\ realBuf = <<>>
    /\ lpvData = <<>>
    /\ thread = [t \in Threads |-> [NoThread EXCEPT !.pc = "entry"]]

\* what a thread's step leaves alone
LazyInitFrame == UNCHANGED <<exportDef, heap, held, last, realBuf, lpvData>>

\* if (!g_pfnDirectInput8Create)
Export_Test(t) ==
    /\ thread[t].pc = "entry"
    /\ thread' = [thread EXCEPT
                     ![t].seen = g_pfnDirectInput8Create,
                     ![t].pc = IF g_pfnDirectInput8Create = NULL
                               THEN "LoadLibraryA" ELSE "call"]
    /\ UNCHANGED g_pfnDirectInput8Create
    /\ LazyInitFrame

\* HMODULE hMod = LoadLibraryA(szSystemPath); if (!hMod) return E_FAIL;
Export_LoadLibraryA(t) ==
    /\ thread[t].pc = "LoadLibraryA"
    /\ \E hMod \in {NULL, 1} :
          thread' = [thread EXCEPT
                       ![t].hMod = hMod,
                       ![t].loads = IF hMod # NULL THEN @ + 1 ELSE @,
                       ![t].hr = IF hMod = NULL THEN E_FAIL ELSE @,
                       ![t].pc = IF hMod = NULL THEN "returned" ELSE "GetProcAddress"]
    /\ UNCHANGED g_pfnDirectInput8Create
    /\ LazyInitFrame

\* g_pfnDirectInput8Create = GetProcAddress(hMod, "DirectInput8Create");
\* if (!g_pfnDirectInput8Create) return E_FAIL;
Export_GetProcAddress(t) ==
    /\ thread[t].pc = "GetProcAddress"
    /\ \E pfn \in {NULL, REAL_PFN} :
          /\ g_pfnDirectInput8Create' = pfn
          /\ thread' = [thread EXCEPT
                          ![t].seen = pfn,
                          ![t].resolves = IF pfn # NULL THEN @ + 1 ELSE @,
                          ![t].hr = IF pfn = NULL THEN E_FAIL ELSE @,
                          ![t].pc = IF pfn = NULL THEN "returned" ELSE "call"]
    /\ LazyInitFrame

\* hr = g_pfnDirectInput8Create(...): the address the call goes through
Export_Call(t) ==
    /\ thread[t].pc = "call"
    /\ \E pfn \in {thread[t].seen, g_pfnDirectInput8Create} :
          thread' = [thread EXCEPT ![t].called = pfn, ![t].pc = "returned"]
    /\ UNCHANGED g_pfnDirectInput8Create
    /\ LazyInitFrame

NextLazyInit ==
    \E t \in Threads :
        \/ Export_Test(t)
        \/ Export_LoadLibraryA(t)
        \/ Export_GetProcAddress(t)
        \/ Export_Call(t)

SpecLazyInit == InitLazyInit /\ [][NextLazyInit]_vars

----------------------------------------------------------------------------
(* Properties of GetDeviceState *)

\* the device wrapper the latest call was made on
Self == heap[last.self]

\* byte offsets of lRx and lRy in the caller's buffer
RotationalBytes == (OffsetRx .. OffsetRx + 3) \cup (OffsetRy .. OffsetRy + 3)

\* C1: a successful GetDeviceState with cbData = sizeof(DIJOYSTATE) through a
\* device wrapper (A or W) returns the real device's result and leaves the
\* buffer as the real device filled it, except lRx and lRy, which are zero.
C1_RotationalFieldsZeroed ==
    (last.op = "GetDeviceState" /\ last.cbData = SizeofDIJOYSTATE
        /\ SUCCEEDED(last.realHr))
    => /\ last.hr = last.realHr
       /\ Len(lpvData) = last.cbData
       /\ LoadLong(lpvData, OffsetRx) = 0
       /\ LoadLong(lpvData, OffsetRy) = 0
       /\ \A i \in 1..Len(lpvData) :
             lpvData[i] = IF (i - 1) \in RotationalBytes THEN 0 ELSE realBuf[i]

C1_Witness ==
    /\ last.op = "GetDeviceState" /\ last.cbData = SizeofDIJOYSTATE
    /\ last.hr = 1
    /\ Self.enc = "A"
    /\ LoadLong(realBuf, OffsetRx) = 150 /\ LoadLong(realBuf, OffsetRy) = -200
    /\ LoadLong(lpvData, OffsetRx) = 0 /\ LoadLong(lpvData, OffsetRy) = 0

\* C2: a successful GetDeviceState with any other cbData leaves every byte as
\* the real device wrote it, lRx and lRy included, and returns its result.
C2_OtherSizesUntouched ==
    (last.op = "GetDeviceState" /\ last.cbData # SizeofDIJOYSTATE
        /\ SUCCEEDED(last.realHr))
    => /\ last.hr = last.realHr
       /\ lpvData = realBuf

C2_Witness ==
    /\ last.op = "GetDeviceState" /\ last.cbData = SizeofDIJOYSTATE + 1
    /\ SUCCEEDED(last.hr)
    /\ Self.enc = "W"
    /\ LoadLong(lpvData, OffsetRx) = 150 /\ LoadLong(lpvData, OffsetRy) = -200

\* C3: when the real GetDeviceState fails, the wrapper returns that failure
\* and stores nothing in the buffer, whatever cbData is.
C3_FailureLeavesBuffer ==
    (last.op = "GetDeviceState" /\ ~SUCCEEDED(last.realHr))
    => /\ last.hr = last.realHr
       /\ lpvData = realBuf

C3_Witness ==
    /\ last.op = "GetDeviceState" /\ last.cbData = SizeofDIJOYSTATE
    /\ ~SUCCEEDED(last.hr)
    /\ Self.enc = "A"
    /\ LoadLong(lpvData, OffsetRx) = 150 /\ LoadLong(lpvData, OffsetRy) = -200

----------------------------------------------------------------------------
(* Properties of CreateDevice *)

WrapperIds == {i \in Ids : IsWrapper(i)}

\* the descriptor names a first-person, six-degrees-of-freedom device
IsTargetType(dwDevType) ==
    /\ dwDevType % 256 = DI8DEVTYPE_1STPERSON
    /\ (dwDevType \div 256) % 256 = DI8DEVTYPE1STPERSON_SIXDOF

\* C4: in every step that is a successful CreateDevice on a factory wrapper
\* with a successful GetDeviceInfo, the handle given to the caller is a device
\* wrapper created in that step around the real device exactly when the type is
\* 1st-person with sub-type 6DOF; otherwise it is the real device handle and no
\* wrapper is created.
C4_WrapsExactlyTargetDevices ==
    [][ (last'.op = "CreateDevice" /\ SUCCEEDED(last'.hr)
            /\ last'.infoCalls = 1 /\ SUCCEEDED(last'.infoHr))
        => IF IsTargetType(last'.devType)
           THEN /\ last'.out \in Ids
                /\ last'.realOut \in Ids
                /\ last'.out # last'.realOut
                /\ heap[last'.out].cls = "free"
                /\ heap'[last'.out].cls = "WrapperIDirectInputDevice8"
                /\ heap'[last'.out].enc = heap[last'.self].enc
                /\ heap'[last'.out].live
                /\ heap'[last'.out].real = last'.realOut
                /\ heap[last'.realOut].cls = "free"
                /\ heap'[last'.realOut].cls = "IDirectInputDevice8"
                /\ WrapperIds' = WrapperIds \cup {last'.out}
           ELSE /\ last'.out = last'.realOut
                /\ last'.out \notin Ids
                /\ WrapperIds' = WrapperIds
      ]_vars

C4_Witness ==
    /\ last.op = "CreateDevice" /\ SUCCEEDED(last.hr) /\ SUCCEEDED(last.infoHr)
    /\ last.devType = 66328
    /\ last.out \in Ids
    /\ heap[last.out].cls = "WrapperIDirectInputDevice8"
    /\ heap[last.out].enc = "W"
    /\ heap[last.out].real = last.realOut

\* C5: in every step in which the real CreateDevice succeeds and GetDeviceInfo
\* on the new device fails, CreateDevice returns the real factory's success
\* code, gives the caller the real device handle and creates no wrapper.
C5_FailOpenCreation ==
    [][ (last'.op = "CreateDevice" /\ SUCCEEDED(last'.realHr)
            /\ last'.infoCalls = 1 /\ ~SUCCEEDED(last'.infoHr))
        => /\ last'.hr = last'.realHr
           /\ last'.hr # last'.infoHr
           /\ last'.out = last'.realOut
           /\ last'.out \notin Ids
           /\ last'.newProxy = NULL
           /\ WrapperIds' = WrapperIds
      ]_vars

C5_Witness ==
    /\ last.op = "CreateDevice" /\ SUCCEEDED(last.hr)
    /\ last.infoCalls = 1 /\ ~SUCCEEDED(last.infoHr)
    /\ IsTargetType(last.devType)
    /\ heap[last.self].enc = "A"
    /\ last.out = last.realOut

----------------------------------------------------------------------------
(* Properties of the reference counting *)

\* C6: a wrapper is destroyed only by a Release made through it whose delegated
\* decrement brought the real count to zero, it is destroyed in every such
\* Release, and it is never destroyed twice.
C6_DestroyedExactlyAtZero ==
    [][ \A p \in Ids :
          /\ (IsWrapper(p) /\ heap[p].live /\ ~heap'[p].live)
             => /\ last'.op = "Release" /\ last'.self = p
                /\ last'.uRet = 0
                /\ heap'[heap[p].real].ref = 0
          /\ (IsWrapper(p) /\ last'.op = "Release" /\ last'.self = p
                /\ heap'[heap[p].real].ref = 0)
             => /\ heap[p].live /\ ~heap'[p].live
                /\ heap[heap[p].real].ref = 1
          /\ heap'[p].deletes <= 1
      ]_vars

C6_Witness ==
    /\ last.op = "Release" /\ last.uRet = 0
    /\ IsWrapper(last.self)
    /\ ~heap[last.self].live /\ heap[last.self].deletes = 1
    /\ heap[heap[last.self].real].ref = 0
    /\ held[last.self] = 0

\* C7: whenever the real object's count is zero, the wrapper around it has
\* been destroyed.
C7_ProxyNeverOutlivesReal ==
    \A p \in Ids :
        (IsWrapper(p) /\ heap[heap[p].real].ref = 0) => ~heap[p].live

----------------------------------------------------------------------------
(* Properties of the exported DirectInput8Create *)

RecognizedRiids == {"IID_IDirectInput8A", "IID_IDirectInput8W"}

\* the latest call attempted the lazy load and the attempt failed
LoadFailed(call) ==
    call.loadCalls = 1 /\ (call.hMod = NULL \/ call.pfn = NULL)

\* C8: in every step in which the export is called with an identifier other
\* than the two recognized ones and the genuine library is loaded, the genuine
\* function is called once with that identifier and the caller's output
\* pointer, its result is returned, the caller's output holds what it left
\* there, and no object is created.
C8_UnknownRiidForwarded ==
    [][ (last'.op = "DirectInput8Create" /\ last'.riid \notin RecognizedRiids
            /\ ~LoadFailed(last'))
        => /\ last'.genuineCalls = 1
           /\ last'.genuineRiid = last'.riid
           /\ last'.hr = last'.realHr
           /\ last'.out = last'.genuineOut
           /\ last'.out \notin Ids
           /\ last'.newProxy = NULL
           /\ heap' = heap
      ]_vars

C8_Witness ==
    /\ last.op = "DirectInput8Create" /\ last.riid = "IID_IUnknown"
    /\ exportDef = 2
    /\ last.genuineCalls = 1 /\ SUCCEEDED(last.hr)
    /\ last.out = GenuineHandle
    /\ WrapperIds = {}

\* C9: when the export is called with the ANSI or the Unicode identifier and
\* the genuine function succeeds, the caller's output is a factory wrapper of
\* that variant created around the real factory, not the real factory.
C9_BothRecognizedRiidsWrapped ==
    (last.op = "DirectInput8Create" /\ last.riid \in RecognizedRiids
        /\ last.genuineCalls = 1 /\ SUCCEEDED(last.realHr))
    => /\ last.out \in Ids
       /\ last.out = last.newProxy
       /\ last.out # last.genuineOut
       /\ heap[last.out].cls = "WrapperIDirectInput8"
       /\ heap[last.out].enc = (IF last.riid = "IID_IDirectInput8A" THEN "A" ELSE "W")
       /\ heap[last.out].real = last.genuineOut

\* C10: in every step in which the lazy load fails (LoadLibraryA or
\* GetProcAddress returns NULL), the export returns E_FAIL, does not call the
\* genuine function, creates nothing and leaves the caller's output alone.
C10_LoadFailureReturnsEFail ==
    [][ (last'.op = "DirectInput8Create" /\ LoadFailed(last'))
        => /\ last'.hr = E_FAIL
           /\ last'.genuineCalls = 0
           /\ last'.newProxy = NULL
           /\ last'.out = UNWRITTEN
           /\ heap' = heap
           /\ held' = held
      ]_vars

C10_Witness ==
    /\ last.op = "DirectInput8Create" /\ last.riid = "IID_IDirectInput8A"
    /\ last.loadCalls = 1 /\ last.procCalls = 1
    /\ last.hMod # NULL /\ last.pfn = NULL
    /\ last.hr = E_FAIL
    /\ last.out = UNWRITTEN

\* C11: the cache goes from empty to the resolved address only in a step of
\* the export in which LoadLibraryA and GetProcAddress both succeeded, and
\* never changes once set; a failed attempt leaves it empty; the export
\* attempts the load in every call made while the cache is empty and calls
\* neither LoadLibraryA nor GetProcAddress in a call made once it is set.
C11_CacheSetOnceBySuccessfulLoad ==
    [][ /\ (g_pfnDirectInput8Create' # g_pfnDirectInput8Create)
           => /\ g_pfnDirectInput8Create = NULL
              /\ last'.op = "DirectInput8Create"
              /\ last'.loadCalls = 1 /\ last'.procCalls = 1
              /\ last'.hMod # NULL /\ last'.pfn # NULL
              /\ g_pfnDirectInput8Create' = last'.pfn
        /\ (g_pfnDirectInput8Create # NULL)
           => g_pfnDirectInput8Create' = g_pfnDirectInput8Create
        /\ (last'.op = "DirectInput8Create" /\ LoadFailed(last'))
           => g_pfnDirectInput8Create' = NULL
        /\ (last'.op = "DirectInput8Create" /\ g_pfnDirectInput8Create = NULL)
           => last'.loadCalls = 1
        /\ (last'.op = "DirectInput8Create" /\ g_pfnDirectInput8Create # NULL)
           => last'.loadCalls = 0 /\ last'.procCalls = 0
      ]_vars

\* a call of the export that found the cache set and went straight to the
\* genuine function
C11_Witness ==
    /\ last.op = "DirectInput8Create"
    /\ g_pfnDirectInput8Create = REAL_PFN
    /\ last.loadCalls = 0 /\ last.procCalls = 0
    /\ last.genuineCalls = 1

----------------------------------------------------------------------------
(* Properties of QueryInterface *)

\* C12: in every QueryInterface step on a wrapper of any of the four classes:
\* for IID_IUnknown or the wrapper's own interface the call returns S_OK, the
\* output is the wrapper and not the real object, the wrapper is unchanged and
\* the real count has grown by exactly one (one AddRef call); for every other
\* identifier the real object's result and output are returned as they are,
\* the wrapper calls no AddRef, and the real count changes only by the
\* reference the real object took for a handle it gave out.
C12_QueryInterfaceSelfOrForward ==
    [][ (last'.op = "QueryInterface")
        => LET p == last'.self
               r == heap[p].real
           IN
           /\ IsWrapper(p)
           /\ heap'[p] = heap[p]
           /\ IF last'.riid = "IID_IUnknown"
                 \/ last'.riid = OwnIid(heap[p].cls, heap[p].enc)
              THEN /\ last'.hr = S_OK
                   /\ last'.out = p
                   /\ last'.out # r
                   /\ last'.addRefCalls = 1
                   /\ heap'[r].ref = heap[r].ref + 1
              ELSE /\ last'.hr = last'.realHr
                   /\ last'.out = last'.realOut
                   /\ last'.addRefCalls = 0
                   /\ heap'[r].ref
                        = heap[r].ref + (IF last'.realOut = r THEN 1 ELSE 0)
      ]_vars

\* IID_IUnknown asked of a Unicode device wrapper: the wrapper itself comes
\* back and the real device is counted twice
C12_Witness ==
    /\ last.op = "QueryInterface" /\ last.riid = "IID_IUnknown"
    /\ heap[last.self].cls = "WrapperIDirectInputDevice8"
    /\ heap[last.self].enc = "W"
    /\ last.out = last.self
    /\ heap[heap[last.self].real].ref = 2
    /\ held[last.self] = 2

----------------------------------------------------------------------------
(* The size of the recognized state buffer *)

\* the latest call read cb bytes and the real device reported lRx = 150 and
\* lRy = -200
ReportedExample(cb) ==
    /\ last.op = "GetDeviceState" /\ SUCCEEDED(last.realHr)
    /\ last.cbData = cb
    /\ LoadLong(realBuf, OffsetRx) = 150
    /\ LoadLong(realBuf, OffsetRy) = -200

\* C13 (as stated): a successful GetDeviceState through a device wrapper with
\* cbData = 48, the real device reporting lRx = 150 and lRy = -200, leaves
\* lRx = 0 and lRy = 0 in the caller's buffer and every other byte as the
\* real device set it.
C13_FortyEightBytesZeroed ==
    ReportedExample(48)
    => /\ LoadLong(lpvData, OffsetRx) = 0
       /\ LoadLong(lpvData, OffsetRy) = 0
       /\ \A i \in 1..Len(lpvData) :
             (i - 1) \notin RotationalBytes => lpvData[i] = realBuf[i]

\* C13 (amended): the recognized size is sizeof(DIJOYSTATE), 80 bytes: the
\* same read with cbData = 80 leaves lRx = 0 and lRy = 0 and every other byte
\* as the real device set it, and with cbData = 48 it leaves lRx = 150 and
\* lRy = -200 in the caller's buffer.
C13_EightyBytesZeroed ==
    /\ ReportedExample(80)
       => /\ LoadLong(lpvData, OffsetRx) = 0
          /\ LoadLong(lpvData, OffsetRy) = 0
          /\ \A i \in 1..Len(lpvData) :
                (i - 1) \notin RotationalBytes => lpvData[i] = realBuf[i]
    /\ ReportedExample(48)
       => /\ LoadLong(lpvData, OffsetRx) = 150
          /\ LoadLong(lpvData, OffsetRy) = -200

C13_Witness ==
    /\ ReportedExample(80)
    /\ last.hr = S_OK
    /\ Len(lpvData) = 80
    /\ LoadLong(lpvData, OffsetRx) = 0 /\ LoadLong(lpvData, OffsetRy) = 0
    /\ lpvData[1] = 165 /\ lpvData[80] = 165

----------------------------------------------------------------------------
(* The capability query in CreateDevice *)

\* the positions of x in the latest call's sequence of calls and stores
PositionsOf(call, x) == {i \in DOMAIN call.calls : call.calls[i] = x}

\* C16: in every successful CreateDevice step GetDeviceInfo is called exactly
\* once, on the real device that step created, after the real CreateDevice
\* call and before the one store to the caller's output; in a failed
\* CreateDevice step and in every step of any other method of a wrapper it
\* is not called at all.
C16_CapabilityQueryOnce ==
    [][ /\ (last'.op = "CreateDevice" /\ SUCCEEDED(last'.hr))
           => /\ last'.infoCalls = 1
              /\ Cardinality(PositionsOf(last', "GetDeviceInfo")) = 1
              /\ Cardinality(PositionsOf(last', "CreateDevice")) = 1
              /\ Cardinality(PositionsOf(last', "store")) = 1
              /\ \A c \in PositionsOf(last', "CreateDevice"),
                    q \in PositionsOf(last', "GetDeviceInfo"),
                    w \in PositionsOf(last', "store") : c < q /\ q < w
              /\ last'.infoOn = last'.realOut
              /\ last'.infoOn # NULL
              /\ last'.infoOn \in Ids
                    => /\ heap[last'.infoOn].cls = "free"
                       /\ heap'[last'.infoOn].cls = "IDirectInputDevice8"
              /\ last'.out # UNWRITTEN
        /\ (last'.op = "CreateDevice" /\ ~SUCCEEDED(last'.hr))
           => /\ last'.infoCalls = 0
              /\ PositionsOf(last', "GetDeviceInfo") = {}
              /\ last'.infoOn = NULL
        /\ (last'.op # "CreateDevice")
           => /\ last'.infoCalls = 0
              /\ PositionsOf(last', "GetDeviceInfo") = {}
      ]_vars

\* a CreateDevice that asked once, got a non-target type and passed the
\* device through
C16_Witness ==
    /\ last.op = "CreateDevice" /\ SUCCEEDED(last.hr)
    /\ last.calls = <<"CreateDevice", "GetDeviceInfo", "store">>
    /\ last.infoCalls = 1 /\ SUCCEEDED(last.infoHr)
    /\ last.devType = 1048
    /\ last.infoOn = last.out

----------------------------------------------------------------------------
(* Failure of the real creation call *)

\* C17: when the real creation call fails, CreateDevice on a factory wrapper
\* and the export called with IID_IDirectInput8A or IID_IDirectInput8W have
\* called the real creation function once, return its result, have created no
\* wrapper, have not called GetDeviceInfo and the caller's output has not been
\* written.
C17_CreationFailurePropagated ==
    /\ (last.op = "CreateDevice" /\ ~SUCCEEDED(last.realHr))
       => /\ Occurrences(last.calls, "CreateDevice") = 1
          /\ last.hr = last.realHr
          /\ last.newProxy = NULL
          /\ last.infoCalls = 0
          /\ last.out = UNWRITTEN
    /\ (last.op = "DirectInput8Create" /\ last.riid \in RecognizedRiids
          /\ ~LoadFailed(last) /\ ~SUCCEEDED(last.realHr))
       => /\ last.genuineCalls = 1
          /\ last.hr = last.realHr
          /\ last.newProxy = NULL
          /\ last.infoCalls = 0
          /\ last.out = UNWRITTEN

----------------------------------------------------------------------------
(* Suppression on every handle of a wrapped device *)

\* the real device the latest state read was made on, through a wrapper or
\* directly
DeviceRead ==
    IF last.op = "GetDeviceState" THEN heap[last.self].real ELSE last.self

\* C18: every successful state read of sizeof(DIJOYSTATE) bytes that the
\* application makes on a device that CreateDevice wrapped, through whichever
\* handle of that device it holds, gives lRx = 0 and lRy = 0.
C18_SuppressionNotBypassed ==
    (/\ last.op \in {"GetDeviceState", "RealGetDeviceState"}
     /\ SUCCEEDED(last.hr) /\ last.cbData = SizeofDIJOYSTATE
     /\ \E w \in Ids : /\ heap[w].cls = "WrapperIDirectInputDevice8"
                        /\ heap[w].real = DeviceRead)
    => /\ LoadLong(lpvData, OffsetRx) = 0
       /\ LoadLong(lpvData, OffsetRy) = 0

----------------------------------------------------------------------------
(* The device wrapper keeps no state of its own *)

ForwardedMethods == {"SetDataFormat", "Acquire", "Poll", "SetProperty", "GetDeviceState"}

\* C19: in every step of SetDataFormat, Acquire, Poll, SetProperty or
\* GetDeviceState on a device wrapper the wrapper's fields, the wrapped
\* pointer included, stay as they were and the real device's result is
\* returned; and what GetDeviceState hands back is a function of the real
\* result, cbData and the bytes the real device wrote alone: these bytes with
\* lRx and lRy zero when the result is a success and cbData is
\* sizeof(DIJOYSTATE), and these bytes unchanged otherwise, whatever format
\* the real device was given before.
C19_DeviceWrapperStateless ==
    [][ (last'.op \in ForwardedMethods)
        => LET p == last'.self IN
           /\ heap[p].cls = "WrapperIDirectInputDevice8"
           /\ heap'[p] = heap[p]
           /\ last'.hr = last'.realHr
           /\ (last'.op = "GetDeviceState")
              => lpvData' =
                    IF SUCCEEDED(last'.realHr) /\ last'.cbData = SizeofDIJOYSTATE
                    THEN [i \in 1..Len(realBuf') |->
                            IF (i - 1) \in RotationalBytes THEN 0 ELSE realBuf'[i]]
                    ELSE realBuf'
      ]_vars

\* a read that zeroed the fields after the real device was given a format,
\* the wrapper still holding nothing but the pointer it was built with
C19_Witness ==
    /\ last.op = "GetDeviceState" /\ SUCCEEDED(last.hr)
    /\ last.cbData = SizeofDIJOYSTATE
    /\ heap[heap[last.self].real].format = "c_dfDIJoystick"
    /\ heap[last.self].m_pDataFormat = "nullptr"
    /\ LoadLong(realBuf, OffsetRx) # 0
    /\ LoadLong(lpvData, OffsetRx) = 0 /\ LoadLong(lpvData, OffsetRy) = 0

----------------------------------------------------------------------------
(* Release from several threads *)

\* thread t takes the step that tests the result of its decrement
TestsResult(t) == thread[t].pc = "test" /\ thread'[t].pc # "test"

\* C14: under every interleaving of Release calls on one wrapper from several
\* threads the wrapper is deleted at most once; it is deleted in the step in
\* which a thread tests the result of its own decrement, exactly when that
\* result is zero, whatever the real count is by then; and no thread reads a
\* field of the wrapper after the wrapper was deleted.
C14_ConcurrentReleaseDeletesOnce ==
    [][ \A p \in Ids : IsWrapper(p) =>
          /\ heap'[p].deletes <= 1
          /\ (heap'[p] # heap[p])
             => \E t \in Threads :
                   /\ TestsResult(t) /\ thread[t].this = p
                   /\ thread[t].uRet = 0
                   /\ \A u \in Threads \ {t} : thread'[u] = thread[u]
          /\ \A t \in Threads :
                (TestsResult(t) /\ thread[t].this = p)
                => IF thread[t].uRet = 0
                   THEN heap[p].live /\ ~heap'[p].live
                   ELSE heap'[p] = heap[p]
          /\ \A t \in Threads : ~thread'[t].useAfterFree
      ]_vars

\* a thread whose decrement returned 1 has yet to test it, while another
\* thread's decrement has returned 0 and that thread has deleted the wrapper
C14_Witness ==
    \E a \in Threads :
        /\ thread[a].pc = "test" /\ thread[a].uRet = 1
        /\ ~heap[thread[a].this].live
        /\ heap[thread[a].this].deletes = 1
        /\ heap[heap[thread[a].this].real].ref = 0
        /\ \E b \in Threads \ {a} : thread[b].pc = "returned" /\ thread[b].uRet = 0

----------------------------------------------------------------------------
(* First use of the export from several threads *)

\* C15: when several threads enter the export while the cache is empty, at
\* most one of them loads the genuine library and at most one resolves the
\* export, and every thread that goes on to call the genuine function calls
\* it through the one pointer in the cache.
C15_ConcurrentFirstUseLoadsOnce ==
    /\ Cardinality({t \in Threads : thread[t].loads > 0}) <= 1
    /\ Cardinality({t \in Threads : thread[t].resolves > 0}) <= 1
    /\ \A t \in Threads :
          (thread[t].pc = "returned" /\ thread[t].hr # E_FAIL)
          => /\ thread[t].called # NULL
             /\ thread[t].called = g_pfnDirectInput8Create

====
